---- MODULE Spec2Model ----
(***************************************************************************)
(* TK-Blockchain: the ledger (blockchain.py), the single-node miner        *)
(* (miner.py) and the multi-process mining test (test_queue.py).           *)
(*                                                                         *)
(* Python integers are unbounded while TLC integers are 32-bit, so the     *)
(* 64-bit arithmetic of wegman_hash is carried out on little-endian byte   *)
(* sequences (one element per byte, index 1 = least significant byte).     *)
(***************************************************************************)
EXTENDS Integers, Sequences, FiniteSets, TLC

(***************************************************************************)
(* Byte-sequence arithmetic                                                *)
(***************************************************************************)

\* the k low bytes (k >= 4) of a natural number n < 2^31
ToBytes(n, k) ==
    <<n % 256, (n \div 256) % 256, (n \div 65536) % 256, (n \div 16777216) % 256>>
        \o [i \in 1..(k - 4) |-> 0]

RECURSIVE AddFrom(_, _, _, _, _)
AddFrom(a, b, i, carry, acc) ==
    IF i > Len(a) THEN Append(acc, carry)
    ELSE LET s == a[i] + b[i] + carry
         IN  AddFrom(a, b, i + 1, s \div 256, Append(acc, s % 256))

\* a + b on operands of k bytes; the result has k+1 bytes (the last is the carry)
AddBytes(a, b) == AddFrom(a, b, 1, 0, <<>>)

RECURSIVE SubFrom(_, _, _, _, _)
SubFrom(a, b, i, borrow, acc) ==
    IF i > Len(a) THEN Append(acc, borrow)
    ELSE LET d == a[i] - b[i] - borrow
         IN  SubFrom(a, b, i + 1, IF d < 0 THEN 1 ELSE 0, Append(acc, (d + 256) % 256))

\* a - b on operands of k bytes; the result has k+1 bytes, the last is 1 when a < b
SubBytes(a, b) == SubFrom(a, b, 1, 0, <<>>)

\* the sum of the byte products a[i] * b[j] with i + j - 1 = c (4-byte operands)
MulColumn(a, b, c) ==
    (IF c \in 1..4 THEN a[1] * b[c] ELSE 0)
  + (IF c \in 2..5 THEN a[2] * b[c-1] ELSE 0)
  + (IF c \in 3..6 THEN a[3] * b[c-2] ELSE 0)
  + (IF c \in 4..7 THEN a[4] * b[c-3] ELSE 0)

RECURSIVE MulFrom(_, _, _, _, _)
MulFrom(a, b, c, carry, acc) ==
    IF c > 8 THEN acc
    ELSE LET s == MulColumn(a, b, c) + carry
         IN  MulFrom(a, b, c + 1, s \div 256, Append(acc, s % 256))

\* a * b on 4-byte operands; the result has 8 bytes
MulBytes(a, b) == MulFrom(a, b, 1, 0, <<>>)

RECURSIVE ModFrom(_, _, _, _)
ModFrom(a, m, i, r) ==
    IF i = 0 THEN r
    ELSE LET h == (r * 16 + (a[i] \div 16)) % m
         IN  ModFrom(a, m, i - 1, (h * 16 + (a[i] % 16)) % m)

\* the value of a byte sequence modulo m, for m < 2^27
ModBytes(a, m) == ModFrom(a, m, Len(a), 0)

\* x & 0xFFFFFFFF for a Python integer x with -2^31 < x < 2^31, as 4 bytes
Mask32(x) ==
    IF x >= 0 THEN ToBytes(x, 4)
    ELSE LET b == ToBytes((x + 1073741824) + 1073741824, 4)   \* x + 2^31
         IN  <<b[1], b[2], b[3], b[4] + 128>>            \* x + 2^32

(***************************************************************************)
(* wegman_hash (blockchain.py:37-74)                                       *)
(***************************************************************************)

\* 0xACEFADE5 and 0xBADBABE5, least significant byte first
WEGMAN_ADD_LO == <<229, 173, 239, 172>>
WEGMAN_ADD_HI == <<229, 171, 219, 186>>

\* the digest of a 64-bit value x given as 8 bytes; the result has 5 bytes
\* (the final add is not truncated to 32 bits)
wegman_hash(x) ==
    LET lo == SubSeq(AddBytes(SubSeq(x, 1, 4), WEGMAN_ADD_LO), 1, 4)
        hi == SubSeq(AddBytes(SubSeq(x, 5, 8), WEGMAN_ADD_HI), 1, 4)
        product == MulBytes(lo, hi)
        product_masked  == SubSeq(product, 1, 4)
        \* (product >> 31) & 0xFFFFFFFF: bits 31..62 of the product
        product_shifted ==
            << ((product[5] * 2) % 256) + (product[4] \div 128),
               ((product[6] * 2) % 256) + (product[5] \div 128),
               ((product[7] * 2) % 256) + (product[6] \div 128),
               ((product[8] * 2) % 256) + (product[7] \div 128) >>
    IN  AddBytes(product_masked, product_shifted)

(***************************************************************************)
(* Blockchain.valid_proof (blockchain.py:269-340)                          *)
(***************************************************************************)

DIFFICULTY_MODULUS == 10000000
DIFFICULTY_TARGET  == 777777

\* guess = ((proofA & 0xFFFFFFFF) << 16) + proofB, as 9 bytes; byte 9 is 1
\* when the sum is negative (proofB < 0 and larger in magnitude)
Guess(proofA, proofB) ==
    LET m == Mask32(proofA)
        shifted == <<0, 0, m[1], m[2], m[3], m[4], 0, 0>>
    IN  IF proofB >= 0 THEN AddBytes(shifted, ToBytes(proofB, 8))
        ELSE SubBytes(shifted, ToBytes(0 - proofB, 8))

\* the range assertion of wegman_hash fails on the guess (AssertionError)
valid_proof_raises(proofA, proofB) == Guess(proofA, proofB)[9] # 0

\* the value valid_proof returns when the assertion passes
valid_proof(proofA, proofB) ==
    LET guess == Guess(proofA, proofB)
    IN  /\ guess[9] = 0
        /\ ModBytes(wegman_hash(SubSeq(guess, 1, 8)), DIFFICULTY_MODULUS) = DIFFICULTY_TARGET

(***************************************************************************)
(* Transaction and Block (blockchain.py:76-218)                            *)
(***************************************************************************)

\* Transaction.__init__: the three fields in insertion order
Transaction(sender, receiver, amt) ==
    [sender |-> sender, receiver |-> receiver, amount |-> amt]

\* the timestamp default of Block.__init__ is evaluated once, when the class
\* body is executed at import; every Block() built without a timestamp gets it
Block_default_timestamp == 0

\* Block.__init__
Block(transactions, proof, prev_hash, timestamp) ==
    [transactions |-> transactions, proof |-> proof,
     prev_hash |-> prev_hash, timestamp |-> timestamp]

\* CPython's built-in hash of an int: the value itself, except hash(-1) = -2
\* (exact for |n| < 2^61 - 1)
IntHash(n) == IF n = -1 THEN -2 ELSE n

\* CPython's built-in hash of a str is salted by a per-process seed
\* (PYTHONHASHSEED); modelled as a fixed mixing of the seed and the string
StrHash(s, seed) ==
    LET code == CASE s = "0" -> 48
                  [] s = "alice" -> 1097
                  [] s = "bob" -> 9811
                  [] s = "node1" -> 20113
                  [] s = "node2" -> 20114
                  [] OTHER -> 7
    IN  (code * 7919 + seed * 10473 + 1) % 32749

RECURSIVE TupleMix(_, _)
TupleMix(lanes, n) ==
    IF n = 0 THEN 2791
    ELSE (TupleMix(lanes, n - 1) * 31 + (lanes[n] % 32749) + 17) % 32749

\* CPython's built-in hash of a tuple, given the hashes of its items in order:
\* an order-sensitive mixing of all lanes and the length, reduced to 15 bits
TupleHash(lanes) ==
    (TupleMix(lanes, Len(lanes)) + Len(lanes) * 3527) % 32749

\* Transaction.__hash__: hash(tuple(values)), values in field order
Transaction_hash(t, seed) ==
    TupleHash(<<StrHash(t.sender, seed), StrHash(t.receiver, seed), IntHash(t.amount)>>)

\* Block.__hash__: hash(tuple(values)) over transactions, proof, prev_hash,
\* timestamp; the transactions tuple hashes its Transaction items
Block_hash(b, seed) ==
    TupleHash(<<TupleHash([i \in 1..Len(b.transactions) |->
                              Transaction_hash(b.transactions[i], seed)]),
                IntHash(b.proof), IntHash(b.prev_hash), IntHash(b.timestamp)>>)

(***************************************************************************)
(* Blockchain (blockchain.py:220-439)                                      *)
(***************************************************************************)

\* Blockchain.init: a chain holding the genesis block
Blockchain_init(seed) == << Block(<<>>, seed, 0, Block_default_timestamp) >>

last_block(c) == c[Len(c)]
num_blocks(c) == Len(c)

RECURSIVE valid_loop(_, _, _)

\* valid_loop checking the proof link only
RECURSIVE valid_loop_proof_only(_, _, _)
valid_loop_proof_only(c, i, seed) ==
    IF i > num_blocks(c) THEN TRUE
    ELSE IF ~valid_proof(c[i-1].proof, c[i].proof) THEN FALSE
    ELSE valid_loop_proof_only(c, i + 1, seed)

\* the loop of Blockchain.valid from index i (1-based) on, with its early return
valid_loop(c, i, seed) ==
    IF i > num_blocks(c) THEN TRUE
    ELSE LET block == c[i]
             prev  == c[i-1]
         IN  IF \/ block.prev_hash # Block_hash(prev, seed)
                \/ ~valid_proof(prev.proof, block.proof)
             THEN FALSE
             ELSE valid_loop(c, i + 1, seed)

\* valid whose loop starts one pair too late
valid_skip_first_pair(c, seed) ==
    IF num_blocks(c) = 0 THEN FALSE
    ELSE IF num_blocks(c) = 1 THEN TRUE
    ELSE valid_loop(c, 3, seed)

\* Blockchain.valid, evaluated in a process whose string-hash seed is seed
valid(c, seed) ==
    IF num_blocks(c) = 0 THEN FALSE
    ELSE IF num_blocks(c) = 1 THEN TRUE
    ELSE valid_loop(c, 2, seed)

\* Blockchain.MINE_ADDR
MINE_ADDR == "0"

(***************************************************************************)
(* Inputs and bounds                                                       *)
(***************************************************************************)

\* longest pending-transaction buffer explored
MaxPending == 2

\* latest clock reading explored
MaxClock == 2

\* longest chain explored where the length is not bounded by the inputs
MaxBlocks == 3

\* genesis seeds: the default of Blockchain.init and a second one
Seeds == {77, 4856919}

\* proofs offered to mine_block: 4856919 and 46743235 are valid after 77,
\* 17683742 is valid after 4856919 only; the negative one makes the guess
\* negative after 77
ProofInputs == {4856919, 46743235, 17683742, -5046273}

TxInputs == { Transaction("alice", "bob", 1), Transaction("bob", "alice", 2) }

\* string-hash seeds a process may start with
HashSeeds == {0, 1}

NoTx == Transaction("", "", 0)

\* str() of a bool
BoolStr(b) == IF b THEN "True" ELSE "False"

(***************************************************************************)
(* State                                                                   *)
(***************************************************************************)

VARIABLES
    chain,                  \* the Blockchain (a list of Blocks)
    current_transactions,   \* its pending transactions
    hashseed,               \* string-hash seed of the process holding the chain
    last_call,              \* the latest call on the chain and its outcome
    alt_chain,              \* a list of blocks received from outside
    valid_result,           \* what valid() returned on alt_chain, or "unset"
    tampered,               \* which block and field of alt_chain was changed
    peers,                  \* Miner.peers, in iteration order
    fetched,                \* the responses the latest resolve_conflicts got
    num_miners,             \* test_queue.py: --num-miners
    run_num_blocks,         \* test_queue.py: --num-blocks, the target length
    m_chain,                \* per miner process: Miner.chain
    m_pc,                   \* per miner process: where it is in run_miner
    m_bursts,               \* per miner process: search bursts since proof = start
    m_next,                 \* per miner process: the item it found or dequeued
    m_got,                  \* per miner process: the items it has dequeued so far
    m_puts,                 \* per miner process: copies broadcast() still has to put
    m_raised,               \* per miner process: the exception that ended it
    q_buffer,               \* per miner process: items put, not yet written to the pipe
    q_items,                \* the JoinableQueue: items in the pipe
    q_unfinished,           \* the JoinableQueue: count of unfinished tasks
    q_sleeping,             \* the JoinableQueue: processes waiting in join()
    main_pc,                \* main(): "joining" the processes or "done"
    now,                    \* the reading time.time() would return
    sent,                   \* the entity a process serialized and its JSON document
    recv_hashseed,          \* string-hash seed of the process that receives it
    received,               \* what from_dict / from_list made of the document
    probes,                 \* two values handed to wegman_hash
    digests,                \* their digests, once computed
    checks,                 \* the outcome of valid_proof's test on each digest
    s_fn,                   \* the strided search that runs: "run" or "proof_of_work"
    s_incr,                 \* its stride
    s_valid,                \* the proofs valid_proof accepts on the head
    s_proof,                \* proof, the candidate of the search
    s_tested,               \* the candidates handed to valid_proof so far
    s_pc                    \* "searching", "found" or the exception raised

chainVars == <<chain, current_transactions, hashseed, last_call>>
validVars == <<alt_chain, valid_result, tampered>>
minerVars == <<peers, fetched>>
queueVars == <<num_miners, run_num_blocks, m_chain, m_pc, m_bursts, m_next, m_got, m_puts, m_raised,
               q_buffer, q_items, q_unfinished, q_sleeping, main_pc>>
clockVars == <<now>>
wireVars  == <<sent, recv_hashseed, received>>
digestVars == <<probes, digests, checks>>
searchVars == <<s_fn, s_incr, s_valid, s_proof, s_tested, s_pc>>

Call(op, proof, tx, raised, ret) ==
    [op |-> op, proof |-> proof, tx |-> tx, raised |-> raised, ret |-> ret]

\* Blockchain.__init__: an empty list of blocks and no pending transactions
InitChain ==
    /\ chain = <<>>
    /\ current_transactions = <<>>
    /\ hashseed \in HashSeeds
    /\ last_call = Call("Blockchain", 0, NoTx, "none", 0)

\* chain = Blockchain.init(seed): the variable now names a fresh chain
init(seed) ==
    /\ chain' = Blockchain_init(seed)
    /\ current_transactions' = <<>>
    /\ last_call' = Call("init", seed, NoTx, "none", 0)
    /\ UNCHANGED hashseed

\* new_transaction returning the index of the current head
new_transaction_head_index(sender, receiver, amt) ==
    /\ Len(current_transactions) < MaxPending
    /\ current_transactions' = Append(current_transactions, Transaction(sender, receiver, amt))
    /\ last_call' = Call("new_transaction", 0, Transaction(sender, receiver, amt),
                         "none", num_blocks(chain) - 1)
    /\ UNCHANGED <<chain, hashseed>>

\* Blockchain.new_transaction
new_transaction(sender, receiver, amt) ==
    /\ Len(current_transactions) < MaxPending
    /\ current_transactions' = Append(current_transactions, Transaction(sender, receiver, amt))
    /\ last_call' = Call("new_transaction", 0, Transaction(sender, receiver, amt),
                         "none", num_blocks(chain))
    /\ UNCHANGED <<chain, hashseed>>

\* mine_block_raises without the proof check
mine_block_raises_unchecked(c, proof) ==
    IF num_blocks(c) = 0 THEN "ValueError" ELSE "none"

\* the exception Blockchain.mine_block(proof) raises on chain c, or "none"
mine_block_raises(c, proof) ==
    IF num_blocks(c) = 0 THEN "ValueError"
    ELSE IF valid_proof_raises(last_block(c).proof, proof) THEN "AssertionError"
    ELSE IF ~valid_proof(last_block(c).proof, proof) THEN "ValueError"
    ELSE "none"

\* mine_block_new linking to nothing
mine_block_new_unlinked(c, txs, proof, seed) ==
    Block(txs, proof, 0, Block_default_timestamp)

\* the block Blockchain.mine_block(proof) creates on chain c with pending txs
mine_block_new(c, txs, proof, seed) ==
    Block(txs, proof, Block_hash(last_block(c), seed), Block_default_timestamp)

\* mine_block resetting the pending transactions before the checks
mine_block_early_reset(proof) ==
    LET err == mine_block_raises(chain, proof)
    IN  /\ last_call' = Call("mine_block", proof, NoTx, err, 0)
        /\ current_transactions' = <<>>
        /\ IF err # "none"
           THEN UNCHANGED chain
           ELSE chain' = Append(chain, mine_block_new(chain, current_transactions,
                                                      proof, hashseed))
        /\ UNCHANGED hashseed

\* Blockchain.mine_block
mine_block(proof) ==
    LET err == mine_block_raises(chain, proof)
    IN  /\ last_call' = Call("mine_block", proof, NoTx, err, 0)
        /\ IF err # "none"
           THEN UNCHANGED <<chain, current_transactions>>
           ELSE /\ chain' = Append(chain, mine_block_new(chain, current_transactions,
                                                         proof, hashseed))
                /\ current_transactions' = <<>>
        /\ UNCHANGED hashseed

\* time passes: time.time() returns a later reading from now on
Tick ==
    /\ now < MaxClock
    /\ now' = now + 1
    /\ UNCHANGED chainVars

vars == <<chainVars, validVars, minerVars, queueVars, clockVars, wireVars, digestVars, searchVars>>

Next ==
    \/ \E seed \in Seeds : init(seed) /\ UNCHANGED <<validVars, minerVars, queueVars, clockVars, wireVars, digestVars, searchVars>>
    \/ \E t \in TxInputs :
          new_transaction(t.sender, t.receiver, t.amount) /\ UNCHANGED <<validVars, minerVars, queueVars, clockVars, wireVars, digestVars, searchVars>>
    \/ \E proof \in ProofInputs : mine_block(proof) /\ UNCHANGED <<validVars, minerVars, queueVars, clockVars, wireVars, digestVars, searchVars>>

\* no Miner exists
IdleMiner ==
    /\ peers = <<>>
    /\ fetched = <<>>

\* the multi-process test is not running
IdleQueue ==
    /\ num_miners = 0
    /\ run_num_blocks = 0
    /\ m_chain = <<>>
    /\ m_pc = <<>>
    /\ m_bursts = <<>>
    /\ m_next = <<>>
    /\ m_got = <<>>
    /\ m_puts = <<>>
    /\ m_raised = <<>>
    /\ q_buffer = <<>>
    /\ q_items = <<>>
    /\ q_unfinished = 0
    /\ q_sleeping = {}
    /\ main_pc = "idle"

\* the clock still reads what it read when blockchain.py was imported
IdleClock == now = Block_default_timestamp

\* nothing was serialized
IdleWire ==
    /\ sent = [kind |-> "none", entity |-> <<>>, doc |-> <<>>]
    /\ recv_hashseed = 0
    /\ received = [raised |-> "unset", entity |-> <<>>, pending |-> <<>>, valid |-> "unset"]

\* no digest is being computed
IdleDigest ==
    /\ probes = <<>>
    /\ digests = <<>>
    /\ checks = <<>>

\* no strided search is being followed
IdleSearch ==
    /\ s_fn = "none"
    /\ s_incr = 0
    /\ s_valid = {}
    /\ s_proof = 0
    /\ s_tested = {}
    /\ s_pc = "idle"

\* no received chain is under validation
IdleValid ==
    /\ alt_chain = <<>>
    /\ valid_result = "unset"
    /\ tampered = [index |-> 0, field |-> "none", old |-> Block(<<>>, 0, 0, 0)]

Init == InitChain /\ IdleClock /\ IdleValid /\ IdleMiner /\ IdleQueue /\ IdleWire /\ IdleDigest /\ IdleSearch

Spec == Init /\ [][Next]_vars

\* the chain interface while time passes
NextClock ==
    \/ \E seed \in Seeds : init(seed) /\ UNCHANGED <<validVars, minerVars, queueVars, clockVars, wireVars, digestVars, searchVars>>
    \/ \E t \in TxInputs :
          new_transaction(t.sender, t.receiver, t.amount) /\ UNCHANGED <<validVars, minerVars, queueVars, clockVars, wireVars, digestVars, searchVars>>
    \/ \E proof \in ProofInputs : mine_block(proof) /\ UNCHANGED <<validVars, minerVars, queueVars, clockVars, wireVars, digestVars, searchVars>>
    \/ Tick /\ UNCHANGED <<validVars, minerVars, queueVars, wireVars, digestVars, searchVars>>

SpecClock == Init /\ [][NextClock]_vars

(***************************************************************************)
(* Miner (miner.py:29-135)                                                 *)
(***************************************************************************)

HTTP_OK == 200
HTTP_NotFound == 404

\* most peers a Miner registers
MaxPeers == 2

PeerAddrs == {"peer1:5000", "peer2:5000"}

MinerTxInputs == { Transaction("alice", "bob", 1) }

\* Miner.ID, a uuid string
MinerID == "node1"
PeerID == "node2"

\* Transaction.from_dict, Block.from_dict and Blockchain.from_list on
\* well-formed data: every entity is rebuilt field by field
Transaction_from_dict(d) == Transaction(d.sender, d.receiver, d.amount)

\* Block.from_dict giving the block the receiver's default timestamp
Block_from_dict_default_timestamp(d) ==
    Block([i \in 1..Len(d.transactions) |-> Transaction_from_dict(d.transactions[i])],
          d.proof, d.prev_hash, Block_default_timestamp)

Block_from_dict(d) ==
    Block([i \in 1..Len(d.transactions) |-> Transaction_from_dict(d.transactions[i])],
          d.proof, d.prev_hash, d.timestamp)

Blockchain_from_list(L) == [i \in 1..Len(L) |-> Block_from_dict(L[i])]

\* heads for which the outcome of the sequential search is tabulated
SearchedHeads == {77, 4856919}

\* Miner.proof_of_work(last_proof): the first proof found counting up from 0.
\* The loop tests millions of candidates, so its results (obtained by running
\* it) are tabulated; mine_block re-checks every one with valid_proof.
proof_of_work(last_proof) ==
    CASE last_proof = 77 -> 4856919
      [] last_proof = 4856919 -> 17683742

\* c after a node of the given ID mined one block on it with proof
MinedBy(c, id, proof, seed) ==
    Append(c, mine_block_new(c, <<Transaction(MINE_ADDR, id, 1)>>, proof, seed))

\* chains a peer may serve: the genesis alone, two different valid two-block
\* chains, a valid three-block chain, a three-block chain with a bad proof,
\* and a two-block chain that passes valid() on a first block whose
\* prev_hash is not 0
PeerChains(seed) ==
    LET g == Blockchain_init(77)
        a == MinedBy(g, PeerID, 4856919, seed)
        h == << Block(<<>>, 77, 5, Block_default_timestamp) >>
    IN  { g, a, MinedBy(g, PeerID, 46743235, seed),
          MinedBy(a, PeerID, 17683742, seed), MinedBy(a, PeerID, 46743235, seed),
          MinedBy(h, PeerID, 4856919, seed) }

\* what requests.get(...) may return for a peer; the peers are processes
\* whose string-hash seed is 0
Responses ==
    { [status_code |-> HTTP_NotFound, chain |-> <<>>] }
        \cup { [status_code |-> HTTP_OK, chain |-> c] : c \in PeerChains(0) }

\* a print in resolve_conflicts that returns
print_checking_passes(alt) == FALSE

\* alt_chain.num_blocks() in the print of resolve_conflicts: num_blocks is a
\* property, so the call applies () to an int and raises TypeError
print_checking_raises(alt) == TRUE

\* the loop of Miner.resolve_conflicts from peer i on; c and txs are the
\* Miner's chain and its pending transactions so far
RECURSIVE resolve_loop(_, _, _, _, _, _)
resolve_loop(resp, i, c, txs, changed, seed) ==
    IF i > Len(resp) THEN [raised |-> "none", chain |-> c, txs |-> txs, changed |-> changed]
    ELSE IF resp[i].status_code # HTTP_OK
    THEN resolve_loop(resp, i + 1, c, txs, changed, seed)
    ELSE LET alt == Blockchain_from_list(resp[i].chain)
         IN  IF print_checking_raises(alt)
             THEN [raised |-> "TypeError", chain |-> c, txs |-> txs, changed |-> changed]
             ELSE IF Len(alt) > Len(c) /\ valid(alt, seed)
             THEN resolve_loop(resp, i + 1, alt, <<>>, TRUE, seed)
             ELSE resolve_loop(resp, i + 1, c, txs, changed, seed)

\* Miner.__init__
InitMiner ==
    /\ peers = <<>>
    /\ fetched = <<>>
    /\ chain = Blockchain_init(77)
    /\ current_transactions = <<>>
    /\ hashseed \in HashSeeds
    /\ last_call = Call("Miner", 0, NoTx, "none", 0)
    /\ IdleValid
    /\ IdleQueue
    /\ IdleClock /\ IdleWire /\ IdleDigest /\ IdleSearch

\* Miner.register_node: peers is a set, adding a member again changes nothing
register_node(addr) ==
    /\ Len(peers) < MaxPeers
    /\ peers' = IF \E i \in 1..Len(peers) : peers[i] = addr THEN peers ELSE Append(peers, addr)
    /\ last_call' = Call("register_node", 0, NoTx, "none", 0)
    /\ UNCHANGED <<chain, current_transactions, hashseed, fetched>>

\* Miner.new_transaction
Miner_new_transaction(sender, receiver, amt) ==
    /\ new_transaction(sender, receiver, amt)
    /\ UNCHANGED minerVars

\* Miner.mine_block without the reward transaction
Miner_mine_block_no_reward ==
    /\ last_block(chain).proof \in SearchedHeads
    /\ LET new_proof == proof_of_work(last_block(chain).proof)
           err == mine_block_raises(chain, new_proof)
       IN  /\ last_call' = Call("Miner.mine_block", new_proof, NoTx, err, new_proof)
           /\ IF err # "none"
              THEN UNCHANGED <<chain, current_transactions>>
              ELSE /\ chain' = Append(chain, mine_block_new(chain, current_transactions,
                                                            new_proof, hashseed))
                   /\ current_transactions' = <<>>
    /\ UNCHANGED <<hashseed, minerVars>>

\* Miner.mine_block
Miner_mine_block ==
    /\ last_block(chain).proof \in SearchedHeads
    /\ LET new_proof == proof_of_work(last_block(chain).proof)
           pending == Append(current_transactions, Transaction(MINE_ADDR, MinerID, 1))
           err == mine_block_raises(chain, new_proof)
       IN  /\ last_call' = Call("Miner.mine_block", new_proof, NoTx, err, new_proof)
           /\ IF err # "none"
              THEN chain' = chain /\ current_transactions' = pending
              ELSE /\ chain' = Append(chain, mine_block_new(chain, pending, new_proof, hashseed))
                   /\ current_transactions' = <<>>
    /\ UNCHANGED <<hashseed, minerVars>>

\* resolve_conflicts leaving an empty pending buffer whatever it decides
resolve_conflicts_drops_pending(resp) ==
    LET r == resolve_loop(resp, 1, chain, current_transactions, FALSE, hashseed)
    IN  /\ chain' = r.chain
        /\ current_transactions' = <<>>
        /\ last_call' = Call("resolve_conflicts", 0, NoTx, r.raised, IF r.changed THEN 1 ELSE 0)
        /\ fetched' = resp
        /\ UNCHANGED <<hashseed, peers>>

\* Miner.resolve_conflicts, each peer answering with resp[i]
resolve_conflicts(resp) ==
    LET r == resolve_loop(resp, 1, chain, current_transactions, FALSE, hashseed)
    IN  /\ chain' = r.chain
        /\ current_transactions' = r.txs
        /\ last_call' = Call("resolve_conflicts", 0, NoTx, r.raised, IF r.changed THEN 1 ELSE 0)
        /\ fetched' = resp
        /\ UNCHANGED <<hashseed, peers>>

NextMiner ==
    \/ \E addr \in PeerAddrs : register_node(addr) /\ UNCHANGED <<validVars, queueVars, clockVars, wireVars, digestVars, searchVars>>
    \/ \E t \in MinerTxInputs :
          Miner_new_transaction(t.sender, t.receiver, t.amount) /\ UNCHANGED <<validVars, queueVars, clockVars, wireVars, digestVars, searchVars>>
    \/ Miner_mine_block /\ UNCHANGED <<validVars, queueVars, clockVars, wireVars, digestVars, searchVars>>
    \/ \E resp \in [1..Len(peers) -> Responses] : resolve_conflicts(resp) /\ UNCHANGED <<validVars, queueVars, clockVars, wireVars, digestVars, searchVars>>

SpecMiner == InitMiner /\ [][NextMiner]_vars

(***************************************************************************)
(* The multi-process mining test (test_queue.py)                           *)
(***************************************************************************)

\* test_queue.py:108
increments == <<3, 5, 7, 11>>

\* the runs explored: two or three miner processes, targets of one to three
\* blocks (the defaults are 3 miners and 2 blocks)
MinerCounts == {2, 3}
Targets == {1, 2, 3}

\* most search bursts a miner spends on one head without finding its proof
MaxBursts == 1

\* the proof the search loop of Miner.run finds on a head with a stride: the
\* first valid value of incr, 2*incr, ... (mod 2^32); 0 when the loop would
\* come back to start.  The loop tests millions of candidates, so its results
\* (obtained by running it) are tabulated for the heads a run of up to three
\* blocks can reach; mine_block re-checks each of them with valid_proof.
StridedSearch(last_proof, incr) ==
    CASE last_proof = 77 /\ incr = 3 -> 4856919
      [] last_proof = 77 /\ incr = 5 -> 46743235
      [] last_proof = 77 /\ incr = 7 -> 46743235
      [] last_proof = 4856919 /\ incr = 3 -> 40672956
      [] last_proof = 4856919 /\ incr = 5 -> 96880440
      [] last_proof = 4856919 /\ incr = 7 -> 50902012
      [] last_proof = 46743235 /\ incr = 3 -> 62976081
      [] last_proof = 46743235 /\ incr = 5 -> 45142820
      [] last_proof = 46743235 /\ incr = 7 -> 62976081

Miners == 1..num_miners

\* an item of the queue: the proof that was put, and the process that put it
\* (the queue carries the proof; the publisher tells the copies of one
\* broadcast from those of another that found the same proof)
Item(proof, by) == [proof |-> proof, by |-> by]

\* a task_done that wakes every join() at each acknowledgement
TaskDone_wakes_always ==
    /\ q_unfinished' = q_unfinished - 1
    /\ q_sleeping' = {}

\* JoinableQueue.task_done: one task less; reaching zero wakes every join()
TaskDone ==
    /\ q_unfinished' = q_unfinished - 1
    /\ q_sleeping' = IF q_unfinished = 1 THEN {} ELSE q_sleeping

\* main() up to the start of the processes; Miner.__init__ in each of them
InitQueue ==
    /\ num_miners \in MinerCounts
    /\ run_num_blocks \in Targets
    /\ m_chain = [m \in Miners |-> Blockchain_init(77)]
    /\ m_pc = [m \in Miners |-> "loop"]
    /\ m_bursts = [m \in Miners |-> 0]
    /\ m_next = [m \in Miners |-> Item(0, 0)]
    /\ m_got = [m \in Miners |-> {}]
    /\ m_puts = [m \in Miners |-> 0]
    /\ m_raised = [m \in Miners |-> "none"]
    /\ q_buffer = [m \in Miners |-> <<>>]
    /\ q_items = <<>>
    /\ q_unfinished = 0
    /\ q_sleeping = {}
    /\ main_pc = "joining"
    /\ chain = <<>>
    /\ current_transactions = <<>>
    /\ hashseed = 0
    /\ last_call = Call("Blockchain", 0, NoTx, "none", 0)
    /\ IdleValid
    /\ IdleMiner
    /\ IdleClock /\ IdleWire /\ IdleDigest /\ IdleSearch

\* Miner.run, top of the loop: the target test, then queue.empty()
LoopHead(m) ==
    /\ m_pc[m] = "loop"
    /\ m_pc' = [m_pc EXCEPT ![m] =
                   IF Len(m_chain[m]) = run_num_blocks THEN "after_run"
                   ELSE IF q_items # <<>> THEN "get"
                   ELSE "hash"]
    /\ UNCHANGED <<num_miners, run_num_blocks, m_chain, m_bursts, m_next, m_got, m_puts, m_raised,
                   q_buffer, q_items, q_unfinished, q_sleeping, main_pc>>

\* next_proof = self.queue.get(block=True): waits while the pipe is empty
Get(m) ==
    /\ m_pc[m] = "get"
    /\ q_items # <<>>
    /\ m_next' = [m_next EXCEPT ![m] = Head(q_items)]
    /\ m_got' = [m_got EXCEPT ![m] = @ \cup {Head(q_items)}]
    /\ q_items' = Tail(q_items)
    /\ m_pc' = [m_pc EXCEPT ![m] = "sync"]
    /\ UNCHANGED <<num_miners, run_num_blocks, m_chain, m_bursts, m_puts, m_raised,
                   q_buffer, q_unfinished, q_sleeping, main_pc>>

\* the sync step without the second target test
Sync_no_target_test(m) ==
    /\ m_pc[m] = "sync"
    /\ LET err == mine_block_raises(m_chain[m], m_next[m].proof)
           new == Append(m_chain[m], mine_block_new(m_chain[m], <<>>, m_next[m].proof, hashseed))
       IN  IF err # "none"
           THEN /\ m_pc' = [m_pc EXCEPT ![m] = "dead"]
                /\ m_raised' = [m_raised EXCEPT ![m] = err]
                /\ UNCHANGED <<m_chain, m_bursts, q_unfinished, q_sleeping>>
           ELSE /\ m_chain' = [m_chain EXCEPT ![m] = new]
                /\ TaskDone
                /\ m_bursts' = [m_bursts EXCEPT ![m] = 0]
                /\ m_pc' = [m_pc EXCEPT ![m] = "hash"]
                /\ UNCHANGED m_raised
    /\ UNCHANGED <<num_miners, run_num_blocks, m_next, m_got, m_puts, q_buffer, q_items, main_pc>>

\* self.chain.mine_block(next_proof); self.queue.task_done(); proof = start;
\* then the second target test.  An exception of mine_block ends the process
\* before task_done.
Sync(m) ==
    /\ m_pc[m] = "sync"
    /\ LET err == mine_block_raises(m_chain[m], m_next[m].proof)
           new == Append(m_chain[m], mine_block_new(m_chain[m], <<>>, m_next[m].proof, hashseed))
       IN  IF err # "none"
           THEN /\ m_pc' = [m_pc EXCEPT ![m] = "dead"]
                /\ m_raised' = [m_raised EXCEPT ![m] = err]
                /\ UNCHANGED <<m_chain, m_bursts, q_unfinished, q_sleeping>>
           ELSE /\ m_chain' = [m_chain EXCEPT ![m] = new]
                /\ TaskDone
                /\ m_bursts' = [m_bursts EXCEPT ![m] = 0]
                /\ m_pc' = [m_pc EXCEPT ![m] =
                               IF Len(new) = run_num_blocks THEN "after_run" ELSE "hash"]
                /\ UNCHANGED m_raised
    /\ UNCHANGED <<num_miners, run_num_blocks, m_next, m_got, m_puts, q_buffer, q_items, main_pc>>

\* a burst of 10000 probes that finds nothing: back to the top of the loop
HashMiss(m) ==
    /\ m_pc[m] = "hash"
    /\ m_bursts[m] < MaxBursts
    /\ m_bursts' = [m_bursts EXCEPT ![m] = @ + 1]
    /\ m_pc' = [m_pc EXCEPT ![m] = "loop"]
    /\ UNCHANGED <<num_miners, run_num_blocks, m_chain, m_next, m_got, m_puts, m_raised,
                   q_buffer, q_items, q_unfinished, q_sleeping, main_pc>>

\* the burst in which the search ends: with the proof, which is mined locally
\* before broadcast() is entered, or with RuntimeError('No proof exists')
HashFound(m) ==
    /\ m_pc[m] = "hash"
    /\ LET proof == StridedSearch(last_block(m_chain[m]).proof, increments[m])
       IN  IF proof = 0
           THEN /\ m_pc' = [m_pc EXCEPT ![m] = "dead"]
                /\ m_raised' = [m_raised EXCEPT ![m] = "RuntimeError"]
                /\ UNCHANGED <<m_chain, m_next>>
           ELSE IF mine_block_raises(m_chain[m], proof) # "none"
           THEN /\ m_pc' = [m_pc EXCEPT ![m] = "dead"]
                /\ m_raised' = [m_raised EXCEPT ![m] = mine_block_raises(m_chain[m], proof)]
                /\ UNCHANGED <<m_chain, m_next>>
           ELSE /\ m_chain' = [m_chain EXCEPT ![m] =
                                  Append(@, mine_block_new(@, <<>>, proof, hashseed))]
                /\ m_next' = [m_next EXCEPT ![m] = Item(proof, m)]
                /\ m_pc' = [m_pc EXCEPT ![m] = "join1"]
                /\ UNCHANGED m_raised
    /\ UNCHANGED <<num_miners, run_num_blocks, m_bursts, m_got, m_puts,
                   q_buffer, q_items, q_unfinished, q_sleeping, main_pc>>

\* a join() that returns at once whatever the count of unfinished tasks
Join_never_waits(m, at, wait, after) ==
    /\ m_pc[m] = at
    /\ m_pc' = [m_pc EXCEPT ![m] = after]
    /\ UNCHANGED q_sleeping

\* JoinableQueue.join(): returns at once when no task is unfinished, else
\* waits to be woken by the task_done that reaches zero
Join(m, at, wait, after) ==
    /\ m_pc[m] = at
    /\ IF q_unfinished = 0
       THEN /\ m_pc' = [m_pc EXCEPT ![m] = after]
            /\ UNCHANGED q_sleeping
       ELSE /\ m_pc' = [m_pc EXCEPT ![m] = wait]
            /\ q_sleeping' = q_sleeping \cup {m}

Woken(m, wait, after) ==
    /\ m_pc[m] = wait
    /\ m \notin q_sleeping
    /\ m_pc' = [m_pc EXCEPT ![m] = after]
    /\ UNCHANGED q_sleeping

\* broadcast(): the first self.queue.join()
BroadcastJoin1(m) ==
    /\ \/ Join(m, "join1", "wait1", "put")
       \/ Woken(m, "wait1", "put")
    /\ m_puts' = [m_puts EXCEPT ![m] = num_miners - 1]
    /\ UNCHANGED <<num_miners, run_num_blocks, m_chain, m_bursts, m_next, m_got, m_raised,
                   q_buffer, q_items, q_unfinished, main_pc>>

\* the capacity of mp.JoinableQueue(): no maxsize is given, so the queue
\* takes the largest value of a semaphore
QueueMaxSize == 2147483647

RECURSIVE BufferedUpTo(_)
BufferedUpTo(m) == IF m = 0 THEN 0 ELSE Len(q_buffer[m]) + BufferedUpTo(m - 1)

\* the items put and not yet dequeued: put takes a slot of the queue, get
\* gives it back
QueueSize == Len(q_items) + BufferedUpTo(num_miners)

\* a put on a queue with room for one item
BroadcastPut_one_slot(m) ==
    /\ m_pc[m] = "put"
    /\ m_puts[m] > 0
    /\ IF QueueSize >= 1
       THEN /\ m_pc' = [m_pc EXCEPT ![m] = "dead"]
            /\ m_raised' = [m_raised EXCEPT ![m] = "Full"]
            /\ UNCHANGED <<q_buffer, q_unfinished, m_puts>>
       ELSE /\ q_buffer' = [q_buffer EXCEPT ![m] = Append(@, m_next[m])]
            /\ q_unfinished' = q_unfinished + 1
            /\ m_puts' = [m_puts EXCEPT ![m] = @ - 1]
            /\ m_pc' = [m_pc EXCEPT ![m] = IF m_puts[m] = 1 THEN "join2" ELSE "put"]
            /\ UNCHANGED m_raised
    /\ UNCHANGED <<num_miners, run_num_blocks, m_chain, m_bursts, m_next, m_got,
                   q_items, q_sleeping, main_pc>>

\* broadcast(): one self.queue.put(proof, block=True, timeout=4).  With a
\* free slot put counts the task and leaves the item to the feeder thread of
\* the process; with none for 4 seconds it raises queue.Full, which ends the
\* process
BroadcastPut(m) ==
    /\ m_pc[m] = "put"
    /\ m_puts[m] > 0
    /\ IF QueueSize >= QueueMaxSize
       THEN /\ m_pc' = [m_pc EXCEPT ![m] = "dead"]
            /\ m_raised' = [m_raised EXCEPT ![m] = "Full"]
            /\ UNCHANGED <<q_buffer, q_unfinished, m_puts>>
       ELSE /\ q_buffer' = [q_buffer EXCEPT ![m] = Append(@, m_next[m])]
            /\ q_unfinished' = q_unfinished + 1
            /\ m_puts' = [m_puts EXCEPT ![m] = @ - 1]
            /\ m_pc' = [m_pc EXCEPT ![m] = IF m_puts[m] = 1 THEN "join2" ELSE "put"]
            /\ UNCHANGED m_raised
    /\ UNCHANGED <<num_miners, run_num_blocks, m_chain, m_bursts, m_next, m_got,
                   q_items, q_sleeping, main_pc>>

\* the feeder thread of a process writes its next buffered item to the pipe,
\* where empty() and get() of every process see it
Feed(m) ==
    /\ q_buffer[m] # <<>>
    /\ q_items' = Append(q_items, Head(q_buffer[m]))
    /\ q_buffer' = [q_buffer EXCEPT ![m] = Tail(@)]
    /\ UNCHANGED <<num_miners, run_num_blocks, m_chain, m_pc, m_bursts, m_next, m_got, m_puts,
                   m_raised, q_unfinished, q_sleeping, main_pc>>

\* broadcast(): the second self.queue.join(), then proof = start and back to
\* the top of the loop
BroadcastJoin2(m) ==
    /\ \/ Join(m, "join2", "wait2", "loop")
       \/ Woken(m, "wait2", "loop")
    /\ m_bursts' = [m_bursts EXCEPT ![m] = IF m_pc'[m] = "loop" THEN 0 ELSE @]
    /\ UNCHANGED <<num_miners, run_num_blocks, m_chain, m_next, m_got, m_puts, m_raised,
                   q_buffer, q_items, q_unfinished, main_pc>>

\* run_miner after miner.run: the first process (display) joins the queue
\* before it prints its chain; the others return
AfterRun(m) ==
    /\ IF m = 1
       THEN \/ Join(m, "after_run", "final_wait", "exited")
            \/ Woken(m, "final_wait", "exited")
       ELSE /\ m_pc[m] = "after_run"
            /\ m_pc' = [m_pc EXCEPT ![m] = "exited"]
            /\ UNCHANGED q_sleeping
    /\ UNCHANGED <<num_miners, run_num_blocks, m_chain, m_bursts, m_next, m_got, m_puts, m_raised,
                   q_buffer, q_items, q_unfinished, main_pc>>

\* main(): m.join() on every process returns once each has ended
MainJoin ==
    /\ main_pc = "joining"
    /\ \A m \in Miners : m_pc[m] \in {"exited", "dead"}
    /\ main_pc' = "done"
    /\ UNCHANGED <<num_miners, run_num_blocks, m_chain, m_pc, m_bursts, m_next, m_got, m_puts,
                   m_raised, q_buffer, q_items, q_unfinished, q_sleeping>>

MinerStep(m) ==
    \/ LoopHead(m)
    \/ Get(m)
    \/ Sync(m)
    \/ HashMiss(m)
    \/ HashFound(m)
    \/ BroadcastJoin1(m)
    \/ BroadcastPut(m)
    \/ Feed(m)
    \/ BroadcastJoin2(m)
    \/ AfterRun(m)

NextQueue ==
    \/ \E m \in Miners : LoopHead(m) /\ UNCHANGED <<chainVars, validVars, minerVars, clockVars, wireVars, digestVars, searchVars>>
    \/ \E m \in Miners : Get(m) /\ UNCHANGED <<chainVars, validVars, minerVars, clockVars, wireVars, digestVars, searchVars>>
    \/ \E m \in Miners : Sync(m) /\ UNCHANGED <<chainVars, validVars, minerVars, clockVars, wireVars, digestVars, searchVars>>
    \/ \E m \in Miners : HashMiss(m) /\ UNCHANGED <<chainVars, validVars, minerVars, clockVars, wireVars, digestVars, searchVars>>
    \/ \E m \in Miners : HashFound(m) /\ UNCHANGED <<chainVars, validVars, minerVars, clockVars, wireVars, digestVars, searchVars>>
    \/ \E m \in Miners : BroadcastJoin1(m) /\ UNCHANGED <<chainVars, validVars, minerVars, clockVars, wireVars, digestVars, searchVars>>
    \/ \E m \in Miners : BroadcastPut(m) /\ UNCHANGED <<chainVars, validVars, minerVars, clockVars, wireVars, digestVars, searchVars>>
    \/ \E m \in Miners : Feed(m) /\ UNCHANGED <<chainVars, validVars, minerVars, clockVars, wireVars, digestVars, searchVars>>
    \/ \E m \in Miners : BroadcastJoin2(m) /\ UNCHANGED <<chainVars, validVars, minerVars, clockVars, wireVars, digestVars, searchVars>>
    \/ \E m \in Miners : AfterRun(m) /\ UNCHANGED <<chainVars, validVars, minerVars, clockVars, wireVars, digestVars, searchVars>>
    \/ MainJoin /\ UNCHANGED <<chainVars, validVars, minerVars, clockVars, wireVars, digestVars, searchVars>>

\* process m, or its feeder thread, can take a step: it is not waiting for an
\* item in get, not asleep in join, and has not ended with nothing left to feed
Runnable(m) ==
    /\ m \in Miners
    /\ \/ m_pc[m] \in {"loop", "sync", "hash", "join1", "put", "join2", "after_run"}
       \/ m_pc[m] = "get" /\ q_items # <<>>
       \/ m_pc[m] \in {"wait1", "wait2", "final_wait"} /\ m \notin q_sleeping
       \/ q_buffer[m] # <<>>

\* the operating system schedules every process that can run, and main:
\* weak fairness of each process's steps, with their enabling condition
\* written out as Runnable
FairQueue ==
    /\ \A m \in 1..3 :
           \/ []<>(~Runnable(m))
           \/ []<><<m \in Miners /\ MinerStep(m)
                      /\ UNCHANGED <<chainVars, validVars, minerVars, clockVars, wireVars, digestVars, searchVars>>>>_vars
    /\ WF_vars(MainJoin /\ UNCHANGED <<chainVars, validVars, minerVars, clockVars, wireVars, digestVars, searchVars>>)

SpecQueue == InitQueue /\ [][NextQueue]_vars /\ FairQueue

(***************************************************************************)
(* Entities sent from one process to another (miner.py:175-180, 126;       *)
(* blockchain.py:103-132, 160-212, 250-267)                                *)
(***************************************************************************)

\* a JSON value as the receiver's json decoder hands it to Python: the type
\* of the decoded object and its content; a bool holds 1 or 0 (True == 1)
JStr(s)   == [t |-> "str", v |-> s]
JInt(n)   == [t |-> "int", v |-> n]
JFloat(x) == [t |-> "float", v |-> x]
JBool(n)  == [t |-> "bool", v |-> n]
JNull     == [t |-> "null", v |-> 0]
JList(l)  == [t |-> "list", v |-> l]
JDict(d)  == [t |-> "dict", v |-> d]

\* isinstance(j, int): bool is a subclass of int
IsInt(j) == j.t \in {"int", "bool"}
IsStr(j) == j.t = "str"
IsFloat(j) == j.t = "float"
\* isinstance(j, list) or isinstance(j, tuple)
IsSequence(j) == j.t = "list"

\* flask.jsonify of a Transaction, a Block and a Blockchain: a dict subclass
\* becomes an object, a tuple or list subclass an array
Transaction_to_json(t) ==
    JDict([sender |-> JStr(t.sender), receiver |-> JStr(t.receiver), amount |-> JInt(t.amount)])

Block_to_json(b) ==
    JDict([transactions |-> JList([i \in 1..Len(b.transactions) |->
                                      Transaction_to_json(b.transactions[i])]),
           proof |-> JInt(b.proof), prev_hash |-> JInt(b.prev_hash),
           timestamp |-> JFloat(b.timestamp)])

Blockchain_to_json(c) == JList([i \in 1..Len(c) |-> Block_to_json(c[i])])

\* response.json(): the decoded document as plain dicts, lists and scalars
RECURSIVE json_loads(_)
json_loads(j) ==
    CASE j.t = "dict" -> [k \in DOMAIN j.v |-> json_loads(j.v[k])]
      [] j.t = "list" -> [i \in 1..Len(j.v) |-> json_loads(j.v[i])]
      [] OTHER -> j.v

\* Transaction().keys() and Block().keys()
Transaction_keys == {"sender", "receiver", "amount"}
Block_keys == {"transactions", "proof", "prev_hash", "timestamp"}

\* the exception Transaction.verify(j) raises, or "none"
Transaction_verify(j) ==
    IF j.t # "dict" THEN "AssertionError"
    ELSE IF Transaction_keys \ DOMAIN j.v # {} THEN "ValueError"
    ELSE IF DOMAIN j.v \ Transaction_keys # {} THEN "ValueError"
    ELSE IF ~IsStr(j.v.sender) \/ ~IsStr(j.v.receiver) THEN "ValueError"
    ELSE IF ~IsInt(j.v.amount) THEN "ValueError"
    ELSE "none"

\* the exception Block.verify(j) raises, or "none"
Block_verify(j) ==
    IF j.t # "dict" THEN "AssertionError"
    ELSE IF Block_keys \ DOMAIN j.v # {} THEN "ValueError"
    ELSE IF DOMAIN j.v \ Block_keys # {} THEN "ValueError"
    ELSE IF ~IsSequence(j.v.transactions) THEN "ValueError"
    ELSE IF ~IsInt(j.v.proof) THEN "ValueError"
    ELSE IF ~IsInt(j.v.prev_hash) THEN "ValueError"
    ELSE IF ~IsFloat(j.v.timestamp) THEN "ValueError"
    ELSE "none"

\* the first exception among the outcomes of a loop, or "none"
RECURSIVE FirstRaised(_, _)
FirstRaised(outcomes, i) ==
    IF i > Len(outcomes) THEN "none"
    ELSE IF outcomes[i] # "none" THEN outcomes[i]
    ELSE FirstRaised(outcomes, i + 1)

\* the exception Transaction.from_dict, Block.from_dict and
\* Blockchain.from_list raise on a decoded document, or "none"
Transaction_from_dict_raises(j) == Transaction_verify(j)

Block_from_dict_raises(j) ==
    IF Block_verify(j) # "none" THEN Block_verify(j)
    ELSE FirstRaised([i \in 1..Len(j.v.transactions.v) |->
                         Transaction_from_dict_raises(j.v.transactions.v[i])], 1)

Blockchain_from_list_raises(L) ==
    FirstRaised([i \in 1..Len(L.v) |-> Block_from_dict_raises(L.v[i])], 1)

\* the reading of the clock when the sending process imported blockchain.py
SenderTimestamp == 1

\* the block a sending process mines on c
SentBlock(c, txs, proof, seed) ==
    Block(txs, proof, Block_hash(last_block(c), seed), SenderTimestamp)

\* chains a sending process may hold: its genesis, and chains mined through
\* Miner.mine_block (a reward transaction in every block, after the pending
\* ones) or through Blockchain.mine_block without transactions
SentChains(seed) ==
    LET g  == << Block(<<>>, 77, 0, SenderTimestamp) >>
        reward == Transaction(MINE_ADDR, MinerID, 1)
        a  == Append(g, SentBlock(g, <<Transaction("alice", "bob", 2), reward>>, 4856919, seed))
        b  == Append(g, SentBlock(g, <<>>, 4856919, seed))
    IN  { g, a, b,
          Append(a, SentBlock(a, <<reward>>, 17683742, seed)),
          Append(b, SentBlock(b, <<>>, 17683742, seed)) }

NoMutation == [level |-> "none", b |-> 0, t |-> 0, how |-> "none", key |-> "none", to |-> "none"]

\* types a field must not have, as <<field, type>>
TransactionWrongTypes ==
    { <<"sender", "int">>, <<"receiver", "null">>,
      <<"amount", "str">>, <<"amount", "float">>, <<"amount", "bool">>, <<"amount", "null">> }
BlockWrongTypes ==
    { <<"transactions", "str">>, <<"transactions", "dict">>,
      <<"proof", "str">>, <<"proof", "bool">>,
      <<"prev_hash", "float">>, <<"prev_hash", "null">>,
      <<"timestamp", "int">>, <<"timestamp", "str">> }

\* ways a document can be malformed in one mapping: a required field dropped,
\* a field added, or a field given a value of another type
FieldMutations(level, keys, wrong) ==
    { [level |-> level, b |-> 0, t |-> 0, how |-> "drop", key |-> k, to |-> "none"] : k \in keys }
      \cup { [level |-> level, b |-> 0, t |-> 0, how |-> "extra", key |-> "extra", to |-> "int"] }
      \cup { [level |-> level, b |-> 0, t |-> 0, how |-> "retype", key |-> w[1], to |-> w[2]] : w \in wrong }

\* a value of the given JSON type
Retyped(to) ==
    CASE to = "str" -> JStr("x")
      [] to = "int" -> JInt(1)
      [] to = "float" -> JFloat(1)
      [] to = "bool" -> JBool(1)
      [] to = "null" -> JNull
      [] to = "dict" -> JDict([x |-> JInt(1)])

\* the mapping j with mutation m applied
MalformDict(j, m) ==
    CASE m.how = "drop" -> JDict([k \in DOMAIN j.v \ {m.key} |-> j.v[k]])
      [] m.how = "extra" ->
            JDict([k \in DOMAIN j.v \cup {m.key} |-> IF k = m.key THEN Retyped(m.to) ELSE j.v[k]])
      [] m.how = "retype" ->
            JDict([k \in DOMAIN j.v |-> IF k = m.key THEN Retyped(m.to) ELSE j.v[k]])

\* the block document j with m applied to it or to its transaction m.t
MalformBlock(j, m) ==
    IF m.level = "block" THEN MalformDict(j, m)
    ELSE JDict([k \in DOMAIN j.v |->
                   IF k = "transactions"
                   THEN JList([i \in 1..Len(j.v.transactions.v) |->
                                  IF i = m.t THEN MalformDict(j.v.transactions.v[i], m)
                                  ELSE j.v.transactions.v[i]])
                   ELSE j.v[k]])

\* the document of the given kind with m applied at its place
Malform(kind, doc, m) ==
    CASE kind = "Transaction" -> MalformDict(doc, m)
      [] kind = "Block" -> MalformBlock(doc, m)
      [] kind = "Chain" ->
            JList([i \in 1..Len(doc.v) |-> IF i = m.b THEN MalformBlock(doc.v[i], m) ELSE doc.v[i]])

\* a node holding a chain and pending transactions, and a receiving process
InitWire ==
    /\ hashseed \in HashSeeds
    /\ recv_hashseed \in HashSeeds
    /\ chain \in SentChains(hashseed)
    /\ current_transactions \in { <<>>, <<Transaction("alice", "bob", 1)>> }
    /\ last_call = Call("Blockchain", 0, NoTx, "none", 0)
    /\ sent = [kind |-> "none", entity |-> <<>>, doc |-> <<>>, malformed |-> NoMutation]
    /\ received = [raised |-> "unset", entity |-> <<>>, pending |-> <<>>, valid |-> "unset"]
    /\ IdleClock /\ IdleValid /\ IdleMiner /\ IdleQueue /\ IdleDigest /\ IdleSearch

\* the node serializes its chain, one of its blocks or one of their transactions
dump_chain ==
    /\ sent.kind = "none"
    /\ sent' = [kind |-> "Chain", entity |-> chain, doc |-> Blockchain_to_json(chain),
                malformed |-> NoMutation]
    /\ UNCHANGED <<recv_hashseed, received>>

dump_block(i) ==
    /\ sent.kind = "none"
    /\ i \in 1..Len(chain)
    /\ sent' = [kind |-> "Block", entity |-> chain[i], doc |-> Block_to_json(chain[i]),
                malformed |-> NoMutation]
    /\ UNCHANGED <<recv_hashseed, received>>

dump_transaction(i, k) ==
    /\ sent.kind = "none"
    /\ i \in 1..Len(chain)
    /\ k \in 1..Len(chain[i].transactions)
    /\ sent' = [kind |-> "Transaction", entity |-> chain[i].transactions[k],
                doc |-> Transaction_to_json(chain[i].transactions[k]),
                malformed |-> NoMutation]
    /\ UNCHANGED <<recv_hashseed, received>>

\* the document reaches the receiver malformed in one mapping: block b of a
\* chain, transaction t of a block, or the mapping itself
malform(m) ==
    /\ sent.kind # "none"
    /\ sent.malformed.how = "none"
    /\ received.raised = "unset"
    /\ \/ sent.kind = "Transaction" /\ m.level = "transaction" /\ m.b = 0 /\ m.t = 0
       \/ /\ sent.kind = "Block" /\ m.b = 0
          /\ \/ m.level = "block" /\ m.t = 0
             \/ m.level = "transaction" /\ m.t \in 1..Len(sent.entity.transactions)
       \/ /\ sent.kind = "Chain" /\ m.b \in 1..Len(sent.entity)
          /\ \/ m.level = "block" /\ m.t = 0
             \/ m.level = "transaction" /\ m.t \in 1..Len(sent.entity[m.b].transactions)
    /\ sent' = [sent EXCEPT !.doc = Malform(sent.kind, sent.doc, m), !.malformed = m]
    /\ UNCHANGED <<recv_hashseed, received>>

\* the receiver rebuilds the entity: Transaction.from_dict, Block.from_dict
\* or Blockchain.from_list on the decoded document
load ==
    /\ sent.kind # "none"
    /\ received.raised = "unset"
    /\ LET err == CASE sent.kind = "Transaction" -> Transaction_from_dict_raises(sent.doc)
                    [] sent.kind = "Block" -> Block_from_dict_raises(sent.doc)
                    [] sent.kind = "Chain" -> Blockchain_from_list_raises(sent.doc)
           d == json_loads(sent.doc)
       IN  received' =
             IF err # "none"
             THEN [raised |-> err, entity |-> <<>>, pending |-> <<>>, valid |-> "unset"]
             ELSE [raised |-> "none",
                   entity |-> CASE sent.kind = "Transaction" -> Transaction_from_dict(d)
                                [] sent.kind = "Block" -> Block_from_dict(d)
                                [] sent.kind = "Chain" -> Blockchain_from_list(d),
                   pending |-> <<>>, valid |-> "unset"]
    /\ UNCHANGED <<sent, recv_hashseed>>

\* the receiver calls valid() on the chain it rebuilt
recv_valid ==
    /\ sent.kind = "Chain"
    /\ received.raised = "none"
    /\ received.valid = "unset"
    /\ received' = [received EXCEPT !.valid = BoolStr(valid(received.entity, recv_hashseed))]
    /\ UNCHANGED <<sent, recv_hashseed>>

Mutations ==
    UNION { { [m EXCEPT !.b = b, !.t = t] :
                m \in FieldMutations("block", Block_keys, BlockWrongTypes)
                        \cup FieldMutations("transaction", Transaction_keys, TransactionWrongTypes) } :
            b \in 0..MaxBlocks, t \in 0..MaxPending }

NextWire ==
    \/ dump_chain /\ UNCHANGED <<chainVars, validVars, minerVars, queueVars, clockVars, digestVars, searchVars>>
    \/ \E i \in 1..MaxBlocks : dump_block(i) /\ UNCHANGED <<chainVars, validVars, minerVars, queueVars, clockVars, digestVars, searchVars>>
    \/ \E i \in 1..MaxBlocks, k \in 1..MaxPending :
          dump_transaction(i, k) /\ UNCHANGED <<chainVars, validVars, minerVars, queueVars, clockVars, digestVars, searchVars>>
    \/ \E m \in Mutations : malform(m) /\ UNCHANGED <<chainVars, validVars, minerVars, queueVars, clockVars, digestVars, searchVars>>
    \/ load /\ UNCHANGED <<chainVars, validVars, minerVars, queueVars, clockVars, digestVars, searchVars>>
    \/ recv_valid /\ UNCHANGED <<chainVars, validVars, minerVars, queueVars, clockVars, digestVars, searchVars>>

SpecWire == InitWire /\ [][NextWire]_vars

(***************************************************************************)
(* The digest test of valid_proof (blockchain.py:338-340)                  *)
(***************************************************************************)

\* values handed to wegman_hash, as 8 bytes: the guesses of valid_proof for
\* (77, 4856919), (77, 46743235) and (4856919, 17683742), the guess 0, and
\* the guesses of valid_proof(0, 4982199568564156748) and
\* valid_proof(0, 4982199568832592204)
ProbeInputs ==
    { SubSeq(Guess(77, 4856919), 1, 8),
      SubSeq(Guess(77, 46743235), 1, 8),
      SubSeq(Guess(4856919, 17683742), 1, 8),
      <<0, 0, 0, 0, 0, 0, 0, 0>>,
      <<76, 249, 94, 92, 28, 84, 36, 69>>,
      <<76, 249, 94, 108, 28, 84, 36, 69>> }

\* bits 0..27 of a digest given as bytes
Low28(d) == <<d[1], d[2], d[3], d[4] % 16>>

\* two calls of valid_proof, each about to hash its guess
InitDigest ==
    /\ probes \in ProbeInputs \X ProbeInputs
    /\ digests = << <<>>, <<>> >>
    /\ checks = <<"unset", "unset">>
    /\ InitChain
    /\ IdleClock /\ IdleValid /\ IdleMiner /\ IdleQueue /\ IdleWire /\ IdleSearch

\* hashval = wegman_hash(guess)
hash_probe(i) ==
    /\ digests[i] = <<>>
    /\ digests' = [digests EXCEPT ![i] = wegman_hash(probes[i])]
    /\ UNCHANGED <<probes, checks>>

\* return hashval % 10000000 == 777777
check_digest(i) ==
    /\ digests[i] # <<>>
    /\ checks[i] = "unset"
    /\ checks' = [checks EXCEPT ![i] =
                     BoolStr(ModBytes(digests[i], DIFFICULTY_MODULUS) = DIFFICULTY_TARGET)]
    /\ UNCHANGED <<probes, digests>>

NextDigest ==
    \/ \E i \in 1..2 : hash_probe(i) /\ UNCHANGED <<chainVars, validVars, minerVars, queueVars, clockVars, wireVars, searchVars>>
    \/ \E i \in 1..2 : check_digest(i) /\ UNCHANGED <<chainVars, validVars, minerVars, queueVars, clockVars, wireVars, searchVars>>

SpecDigest == InitDigest /\ [][NextDigest]_vars

\* C15: two digests that agree on their low 28 bits get the same outcome of
\* the test digest mod 10,000,000 = 777,777.
C15_OnlyLow28BitsMatter ==
    (/\ checks[1] # "unset"
     /\ checks[2] # "unset"
     /\ Low28(digests[1]) = Low28(digests[2]))
        => checks[1] = checks[2]

(***************************************************************************)
(* The strided searches (test_queue.py:80-91, test_blockchain.py:31-44)    *)
(***************************************************************************)

\* the searches count modulo 2^32; the model follows them on a proof space
\* of 2^SpaceBits values, with the same strides and with valid_proof as any
\* predicate on that space that accepts at most one value
SpaceBits == 3

RECURSIVE Pow2(_)
Pow2(n) == IF n = 0 THEN 1 ELSE 2 * Pow2(n - 1)

Space == Pow2(SpaceBits)

\* the strides of increments that are below the size of the space; all are
\* odd, so math.gcd(2**32, incr) == 1 holds of them in either space
Strides == {increments[i] : i \in {j \in 1..Len(increments) : increments[j] < Space}}

\* start = 0 in Miner.run; the literal 0 in proof_of_work
start == 0

\* a search is about to begin: proof = start
InitSearch ==
    /\ s_fn \in {"run", "proof_of_work"}
    /\ s_incr \in Strides
    /\ s_valid \in {{}} \cup {{v} : v \in 0..(Space - 1)}
    /\ s_proof = start
    /\ s_tested = {}
    /\ s_pc = "searching"
    /\ InitChain
    /\ IdleClock /\ IdleValid /\ IdleMiner /\ IdleQueue /\ IdleWire /\ IdleDigest

\* one pass of the for loop of Miner.run: step, compare with start, then
\* test the candidate
run_search_step ==
    /\ s_fn = "run"
    /\ s_pc = "searching"
    /\ LET proof == (s_proof + s_incr) % Space
       IN  IF proof = start
           THEN /\ s_pc' = "RuntimeError"
                /\ UNCHANGED <<s_proof, s_tested>>
           ELSE /\ s_proof' = proof
                /\ s_tested' = s_tested \cup {proof}
                /\ s_pc' = IF proof \in s_valid THEN "found" ELSE "searching"
    /\ UNCHANGED <<s_fn, s_incr, s_valid>>

\* one pass of the while loop of proof_of_work: test the candidate, then
\* step and compare with 0
proof_of_work_step ==
    /\ s_fn = "proof_of_work"
    /\ s_pc = "searching"
    /\ s_tested' = s_tested \cup {s_proof}
    /\ IF s_proof \in s_valid
       THEN /\ s_pc' = "found"
            /\ UNCHANGED s_proof
       ELSE LET proof == (s_proof + s_incr) % Space
            IN  /\ s_proof' = proof
                /\ s_pc' = IF proof = 0 THEN "RuntimeError" ELSE "searching"
    /\ UNCHANGED <<s_fn, s_incr, s_valid>>

NextSearch ==
    \/ run_search_step /\ UNCHANGED <<chainVars, validVars, minerVars, queueVars, clockVars, wireVars, digestVars>>
    \/ proof_of_work_step /\ UNCHANGED <<chainVars, validVars, minerVars, queueVars, clockVars, wireVars, digestVars>>

SpecSearch == InitSearch /\ [][NextSearch]_vars

\* C25: a strided search that ends with the exhaustion error has tested
\* every value of the proof space, the start value included, and none of
\* them is a valid proof.
C25_ExhaustionAfterFullScan ==
    s_pc = "RuntimeError"
        => /\ s_tested = 0..(Space - 1)
           /\ s_valid = {}

(***************************************************************************)
(* Claims on the chain interface                                           *)
(***************************************************************************)

\* every adjacent pair of c has the hash link and the proof link
LinksHold(c, seed) ==
    \A i \in 2..Len(c) :
        /\ c[i].prev_hash = Block_hash(c[i-1], seed)
        /\ valid_proof(c[i-1].proof, c[i].proof)

\* C1: once a genesis block was made the chain stays non-empty, and in every
\* reachable state every block after the genesis carries the hash of its
\* predecessor and a proof valid against its predecessor's proof, so that
\* valid() is true.
C1_ChainAlwaysValid ==
    /\ [](num_blocks(chain) >= 1 => (LinksHold(chain, hashseed) /\ valid(chain, hashseed)))
    /\ [][last_call'.op = "init" => num_blocks(chain') = 1]_vars
    /\ [][num_blocks(chain) >= 1 => num_blocks(chain') >= 1]_vars

C1_Witness ==
    /\ num_blocks(chain) = 3
    /\ Len(chain[2].transactions) > 0
    /\ last_call.op = "mine_block" /\ last_call.raised # "none"

\* C2: a mine_block call on an empty chain, or with a proof that is not valid
\* against the head's proof, raises an error and changes neither the blocks
\* nor the pending transactions.
C2_FailedMineChangesNothing ==
    [][ (/\ last_call'.op = "mine_block"
         /\ \/ num_blocks(chain) = 0
            \/ ~valid_proof(last_block(chain).proof, last_call'.proof))
        => (/\ last_call'.raised \in {"ValueError", "AssertionError"}
            /\ chain' = chain
            /\ current_transactions' = current_transactions) ]_vars

C2_Witness ==
    /\ last_call.op = "mine_block"
    /\ last_call.raised = "ValueError"
    /\ num_blocks(chain) >= 2
    /\ Len(current_transactions) > 0

\* C3: a mine_block call that succeeds appends exactly one block, with the
\* given proof, the hash of the former head and the pending transactions in
\* submission order; it empties the pending buffer and keeps earlier blocks.
C3_SuccessfulMineAppends ==
    [][ (last_call'.op = "mine_block" /\ last_call'.raised = "none")
        => (/\ Len(chain') = Len(chain) + 1
            /\ SubSeq(chain', 1, Len(chain)) = chain
            /\ last_block(chain').proof = last_call'.proof
            /\ last_block(chain').prev_hash = Block_hash(last_block(chain), hashseed)
            /\ last_block(chain').transactions = current_transactions
            /\ current_transactions' = <<>>) ]_vars

C3_Witness ==
    /\ last_call.op = "mine_block" /\ last_call.raised = "none"
    /\ num_blocks(chain) = 3
    /\ Len(last_block(chain).transactions) = 2
    /\ last_block(chain).transactions[1] # last_block(chain).transactions[2]
    /\ current_transactions = <<>>

\* C11: new_transaction returns the current number of blocks, which is the
\* (0-based) index of the next block; the transaction stays in the pending
\* buffer, at its place, while the chain keeps its length, and the next
\* successful mine_block on the chain puts it in the block at that index.
C11_ReturnedIndexHoldsTransaction ==
    /\ [][ last_call'.op = "new_transaction"
            => (/\ last_call'.ret = Len(chain)
                /\ chain' = chain
                /\ current_transactions' = Append(current_transactions, last_call'.tx)) ]_vars
    /\ [][ last_call'.op # "init"
            => \A i \in 1..Len(current_transactions) :
                  \/ /\ Len(chain') = Len(chain)
                     /\ Len(current_transactions') >= i
                     /\ current_transactions'[i] = current_transactions[i]
                  \/ /\ last_call'.op = "mine_block" /\ last_call'.raised = "none"
                     /\ Len(chain') = Len(chain) + 1
                     /\ chain'[Len(chain) + 1].transactions[i] = current_transactions[i] ]_vars

\* two transactions were submitted on a one-block chain and the next
\* successful mine_block put both, in order, in the block of index 1
C11_Witness ==
    /\ last_call.op = "mine_block" /\ last_call.raised = "none"
    /\ num_blocks(chain) = 2
    /\ chain[2].transactions = <<Transaction("bob", "alice", 2), Transaction("alice", "bob", 1)>>

\* C14: the block a successful mine_block appends carries as timestamp the
\* reading of the clock at that call, so that blocks mined at different
\* readings carry different timestamps.
C14_TimestampIsMineTime ==
    [][ (last_call'.op = "mine_block" /\ last_call'.raised = "none")
        => last_block(chain').timestamp = now ]_vars

InputTxSeqs == { <<>>, <<Transaction("alice", "bob", 1)>> }
\* 4856919 is valid after 77, 17683742 after 4856919, 1477157 after 17683742
InputProofs == {4856919, 17683742, 1477157}

\* received chains one block longer than those of cs: every combination of
\* transactions and proof, with the hash of the predecessor or another value
Extend(cs, seed) ==
    UNION { { Append(c, Block(txs, proof, prev_hash, Block_default_timestamp)) :
                txs \in InputTxSeqs, proof \in InputProofs,
                prev_hash \in {0, Block_hash(last_block(c), seed)} } : c \in cs }

RECURSIVE InputChainsOfLen(_, _)
InputChainsOfLen(n, seed) ==
    IF n = 0 THEN { <<>> }
    ELSE IF n = 1
    THEN { << Block(txs, proof, prev_hash, timestamp) >> :
             txs \in InputTxSeqs, proof \in {77}, prev_hash \in {0, 5},
             timestamp \in {Block_default_timestamp} }
    ELSE Extend(InputChainsOfLen(n - 1, seed), seed)

InputChains(seed) == UNION { InputChainsOfLen(n, seed) : n \in 0..MaxBlocks }

InitValid ==
    /\ hashseed \in HashSeeds
    /\ alt_chain \in InputChains(hashseed)
    /\ valid_result = "unset"
    /\ tampered = [index |-> 0, field |-> "none", old |-> Block(<<>>, 0, 0, 0)]
    /\ chain = <<>>
    /\ current_transactions = <<>>
    /\ last_call = Call("Blockchain", 0, NoTx, "none", 0)
    /\ IdleMiner
    /\ IdleQueue
    /\ IdleClock /\ IdleWire /\ IdleDigest /\ IdleSearch

\* alt_chain.valid()
call_valid ==
    /\ valid_result = "unset"
    /\ valid_result' = BoolStr(valid(alt_chain, hashseed))
    /\ UNCHANGED <<alt_chain, tampered>>

\* values a tampered field may be given
TamperValues(field, old) ==
    CASE field = "transactions" ->
            { <<>>, <<Transaction("alice", "bob", 1)>>, <<Transaction("bob", "alice", 2)>> }
      [] field = "proof" -> InputProofs
      [] field = "prev_hash" -> {0, old + 1}
      [] field = "timestamp" -> {0, 1}

\* one field of one non-genesis block of a chain that passed valid() is
\* overwritten (Block is a dict; nothing in the code prevents the write)
tamper(i, field, value) ==
    /\ valid_result = "True"
    /\ tampered.index = 0
    /\ i \in 2..Len(alt_chain)
    /\ value # alt_chain[i][field]
    /\ alt_chain' = [alt_chain EXCEPT ![i][field] = value]
    /\ tampered' = [index |-> i, field |-> field, old |-> alt_chain[i]]
    /\ valid_result' = "unset"

NextValid ==
    \/ call_valid /\ UNCHANGED <<chainVars, minerVars, queueVars, clockVars, wireVars, digestVars, searchVars>>
    \/ \E i \in 2..MaxBlocks, field \in {"transactions", "proof", "prev_hash", "timestamp"} :
          \E value \in TamperValues(field, IF i <= Len(alt_chain) THEN alt_chain[i].prev_hash ELSE 0) :
              tamper(i, field, value) /\ UNCHANGED <<chainVars, minerVars, queueVars, clockVars, wireVars, digestVars, searchVars>>

SpecValid == InitValid /\ [][NextValid]_vars

\* C4: valid() is false on the empty chain, true on every one-block chain,
\* and on a longer chain true exactly when every adjacent pair has both the
\* hash link and the proof link.
C4_ValidCharacterised ==
    valid_result # "unset" =>
        /\ Len(alt_chain) = 0 => valid_result = "False"
        /\ Len(alt_chain) = 1 => valid_result = "True"
        /\ Len(alt_chain) >= 2 =>
              (valid_result = "True" <=> LinksHold(alt_chain, hashseed))

\* a three-block chain whose first pair is linked and whose second pair has
\* the hash link but not the proof link, validated as false
C4_Witness ==
    /\ valid_result = "False"
    /\ tampered.index = 0
    /\ Len(alt_chain) = 3
    /\ LinksHold(SubSeq(alt_chain, 1, 2), hashseed)
    /\ alt_chain[3].prev_hash = Block_hash(alt_chain[2], hashseed)

C13_ValidInEveryProcess ==
    (/\ sent.kind = "Chain"
     /\ sent.malformed.how = "none"
     /\ received.valid # "unset"
     /\ valid(chain, hashseed))
        => received.valid = "True"

C17_MalformedRejected ==
    (received.raised # "unset" /\ sent.malformed.how # "none")
        => received.raised = "ValueError"

(***************************************************************************)
(* Claims on Miner.resolve_conflicts                                       *)
(***************************************************************************)

\* the response holds a chain longer than c that passes valid()
Qualifies(response, c, seed) ==
    /\ response.status_code = HTTP_OK
    /\ Len(response.chain) > Len(c)
    /\ valid(Blockchain_from_list(response.chain), seed)

QualifyingPeers(resp, c, seed) == { i \in 1..Len(resp) : Qualifies(resp[i], c, seed) }

SetMax(S) == CHOOSE m \in S : \A n \in S : n <= m

\* C8: resolve_conflicts returns; it replaces the chain only by a fetched
\* chain that is longer than the local one and valid, keeps the chain when no
\* fetched chain qualifies, and returns true exactly when it replaced it.
C8_ResolveTakesLongerValid ==
    [][ last_call'.op = "resolve_conflicts" =>
          LET q == QualifyingPeers(fetched', chain, hashseed)
          IN  /\ last_call'.raised = "none"
              /\ chain' # chain =>
                    \E i \in q : chain' = Blockchain_from_list(fetched'[i].chain)
              /\ q = {} => chain' = chain
              /\ (last_call'.ret = 1) <=> (chain' # chain) ]_vars

\* C9: when several fetched chains qualify against the chain the call
\* started with, the chain afterwards is the last of them in iteration order.
C9_LastQualifyingWins ==
    [][ (/\ last_call'.op = "resolve_conflicts"
         /\ Cardinality(QualifyingPeers(fetched', chain, hashseed)) >= 2)
        => chain' = Blockchain_from_list(
                       fetched'[SetMax(QualifyingPeers(fetched', chain, hashseed))].chain) ]_vars

\* C10: when the fetch from some peer failed, resolve_conflicts still
\* returns without an error and the other peers' chains are considered: if
\* one of them qualifies, a qualifying chain is adopted.
C10_FailedFetchSkipped ==
    [][ (/\ last_call'.op = "resolve_conflicts"
         /\ \E i \in 1..Len(fetched') : fetched'[i].status_code # HTTP_OK)
        => LET q == QualifyingPeers(fetched', chain, hashseed)
           IN  /\ last_call'.raised = "none"
               /\ q # {} => \E i \in q : chain' = Blockchain_from_list(fetched'[i].chain) ]_vars

(***************************************************************************)
(* Claims on the multi-process mining test                                 *)
(***************************************************************************)

\* Miner.run has returned in process m
RunReturned(m) == m_pc[m] \in {"after_run", "final_wait", "exited"}

\* process m has ended, by returning from run_miner or by an exception
Ended(m) == m_pc[m] \in {"exited", "dead"}

MinLen(a, b) == IF Len(a) < Len(b) THEN Len(a) ELSE Len(b)

\* C6: under fair scheduling every miner process ends its run with a chain
\* of the target length, none is ended by an exception, none stays blocked
\* in join or get, and main's join on all of them returns.
C6_AllAgentsFinish ==
    <>[](/\ main_pc = "done"
         /\ \A m \in Miners : /\ m_pc[m] = "exited"
                              /\ m_raised[m] = "none"
                              /\ Len(m_chain[m]) = run_num_blocks)

C18_PeersHoldBlockAtResume ==
    [][\A m \in Miners :
          (m_pc[m] \in {"join2", "wait2"} /\ m_pc'[m] = "loop")
              => \A n \in Miners \ {m} :
                     /\ Len(m_chain'[n]) >= Len(m_chain[m])
                     /\ m_chain'[n][Len(m_chain[m])] = last_block(m_chain[m])]_vars

\* a process of a run of three is back at the top of its loop after a
\* broadcast: it holds a block it mined and has not searched since
C18_Witness ==
    /\ num_miners = 3
    /\ \E m \in Miners :
           /\ m_pc[m] = "loop"
           /\ m_bursts[m] = 0
           /\ Len(m_chain[m]) > 1
           /\ m_next[m] = Item(last_block(m_chain[m]).proof, m)
           /\ \A n \in Miners : Len(m_chain[n]) >= Len(m_chain[m])

\* C19: a process never dequeues a second copy of a broadcast it has already
\* dequeued a copy of, and never dequeues a copy it published itself.
C19_OneCopyPerPeer ==
    [][\A m \in Miners :
          (m_pc[m] = "get" /\ m_pc'[m] = "sync")
              => /\ Head(q_items) \notin m_got[m]
                 /\ Head(q_items).by # m]_vars

\* C20: the proof a process has dequeued is valid on the head of its chain,
\* so the mine_block of the sync step does not raise.
C20_DequeuedProofValid ==
    \A m \in Miners :
        m_pc[m] = "sync" => mine_block_raises(m_chain[m], m_next[m].proof) = "none"

\* C21: a process that saw the queue non-empty and is in get() finds an item
\* there: it never waits in get().
C21_GetNeverWaits ==
    \A m \in Miners : m_pc[m] = "get" => q_items # <<>>

\* the items put on the queue and not yet acknowledged: those still with a
\* feeder thread, those in the pipe, and those dequeued by a process that has
\* not yet called task_done
Unacknowledged ==
    UNION { {q_buffer[m][i] : i \in 1..Len(q_buffer[m])} : m \in Miners }
        \cup {q_items[i] : i \in 1..Len(q_items)}
        \cup {m_next[m] : m \in {n \in Miners : m_pc[n] = "sync"}}

\* C22: the unacknowledged items of the queue are copies of at most one
\* broadcast.
C22_OneBroadcastInFlight ==
    Cardinality(Unacknowledged) <= 1

\* C28: mine_block with an integer proof either appends a block or raises
\* the invalid-proof error (ValueError); it raises nothing else.
C28_OnlyInvalidProofError ==
    last_call.op = "mine_block" => last_call.raised \in {"none", "ValueError"}

C27_MinedBlockEndsWithReward ==
    [][last_call'.op = "Miner.mine_block"
          => /\ last_call'.raised = "none"
             /\ Len(chain') = Len(chain) + 1
             /\ SubSeq(chain', 1, Len(chain)) = chain
             /\ last_block(chain').transactions =
                    Append(current_transactions, Transaction(MINE_ADDR, MinerID, 1))
             /\ current_transactions' = <<>>]_vars

\* the node has mined a block that holds a submitted transaction and, after
\* it, the reward
C27_Witness ==
    /\ last_call.op = "Miner.mine_block"
    /\ Len(chain) = 3
    /\ Len(last_block(chain).transactions) = 2
    /\ last_block(chain).transactions[2] = Transaction(MINE_ADDR, MinerID, 1)

\* C23: no process of the run ends with queue.Full: every put of a
\* broadcast finds a free slot.
C23_NoQueueFull ==
    \A m \in Miners : m_raised[m] # "Full"

\* two processes of a run of three have put all their copies and none has
\* been dequeued: the fullest the queue gets
C23_Witness ==
    /\ num_miners = 3
    /\ QueueSize = 4
    /\ \E m \in Miners : m_pc[m] \in {"join2", "wait2"}

\* the steps of Miner.run in which a process searches, dequeues or appends
Working == {"get", "sync", "hash"}

\* C24: the chain of a process is never longer than the target; run() has
\* returned only at the target; a process at the target is not searching,
\* dequeuing or appending, its chain no longer changes, and from the top of
\* its loop it leaves run().
C24_StopsAtTarget ==
    /\ [](\A m \in Miners :
              /\ Len(m_chain[m]) <= run_num_blocks
              /\ RunReturned(m) => Len(m_chain[m]) = run_num_blocks
              /\ Len(m_chain[m]) = run_num_blocks => m_pc[m] \notin Working)
    /\ [][\A m \in Miners :
              Len(m_chain[m]) = run_num_blocks
                  => /\ m_chain'[m] = m_chain[m]
                     /\ (m_pc[m] = "loop" /\ m_pc'[m] # "loop") => m_pc'[m] = "after_run"]_vars

\* of a run with a target of two or more, one process has left run() after
\* finding the last block itself and another after taking it from the queue
C24_Witness ==
    /\ run_num_blocks >= 2
    /\ \E m, n \in Miners :
           /\ RunReturned(m) /\ m_next[m].by = m
           /\ RunReturned(n) /\ m_next[n].by \notin {0, n}

====
